---- MODULE Spec2Model ----
(***************************************************************************)
(* Fractional-delay compensation of a multiplexed ADC                      *)
(* (conference_materials/SCR2025/filter_delay.py).                         *)
(*                                                                         *)
(* Three specifications over one set of variables:                         *)
(*   TimingSpec  the group loop that fills `delays`, over bounded group    *)
(*               tables (partitions and non-partitions, indices in and     *)
(*               out of range);                                            *)
(*   FilterSpec  poly_taps(order, delay) followed by np.convolve(taps, x,  *)
(*               mode="valid"), over bounded orders, rational delays and   *)
(*               sample sequences;                                         *)
(*   Spec        the script as written: its own group table, timing        *)
(*               constants and order list.                                 *)
(*                                                                         *)
(* Real numbers are exact rationals <<n, d>> in lowest terms with d > 0.   *)
(***************************************************************************)
EXTENDS Integers, Sequences, FiniteSets

VARIABLES
    pc,                  \* position in the script / call
    err,                 \* exception raised ("none" while running)
    groups,              \* channel-group table: sequence of sets of indices
    delay_per_group,     \* [s] rational
    delays,              \* per-channel delay array (1-based: delays[c+1])
    i,                   \* loop index of the enumerate / range(len(groups)) loops
    sample_period,       \* [s] rational
    fractional_delays,   \* delays / sample_period
    oi,                  \* position in the order list
    order,               \* tap count of the current poly_taps call / filter set
    delay,               \* delay argument of the current poly_taps call
    k,                   \* tap index of the loop inside poly_taps
    ptaps,               \* the array `taps` local to poly_taps
    taps,                \* the per-channel list `taps` of the script
    sample_t,            \* target sample times
    group_sample_values, \* samples fed to np.convolve
    corrected_samples,   \* result of np.convolve
    target_t             \* sample_t[order-1:], plotted against corrected_samples

vars == <<pc, err, groups, delay_per_group, delays, i, sample_period,
          fractional_delays, oi, order, delay, k, ptaps, taps,
          sample_t, group_sample_values, corrected_samples, target_t>>

---------------------------------------------------------------------------
(* Bounds of the generic specifications.                                   *)

NChan == 3
MaxGroups == 2
MaxGroupDelayNum == 2
MaxOrder == 6
MaxDelayNum == 6
MaxDelayDen == 3
MaxSamples == 5

---------------------------------------------------------------------------
(* Exact rational arithmetic standing for Python / numpy float arithmetic. *)

Abs(n) == IF n < 0 THEN -n ELSE n

RECURSIVE GCD(_, _)
GCD(a, b) == IF b = 0 THEN a ELSE GCD(b, a % b)

Rat(n, d) ==
    LET s == IF d < 0 THEN -1 ELSE 1
        g == GCD(Abs(n), Abs(d))
    IN  <<(s * n) \div g, (s * d) \div g>>

Zero == <<0, 1>>
One == <<1, 1>>
FromInt(n) == <<n, 1>>

RAdd(a, b) ==
    LET g == GCD(a[2], b[2])
    IN  Rat(a[1] * (b[2] \div g) + b[1] * (a[2] \div g), (a[2] \div g) * b[2])

RSub(a, b) == RAdd(a, <<-b[1], b[2]>>)
RMul(a, b) == Rat(a[1] * b[1], a[2] * b[2])
RDiv(a, b) == Rat(a[1] * b[2], a[2] * b[1])

RECURSIVE RSum(_)
RSum(s) == IF s = <<>> THEN Zero ELSE RAdd(s[1], RSum(Tail(s)))

Zeros(n) == [c \in 1..n |-> Zero]

---------------------------------------------------------------------------
(* Timing model: lines 14-31.                                              *)

\* numpy accepts an index j of an array of length n when -n <= j < n
InBounds(j, n) == -n <= j /\ j < n

\* negative indices count from the end
Resolve(j, n) == IF j < 0 THEN j + n ELSE j

GroupDelayShifted(idx, dpg) == RMul(FromInt(idx + 1), dpg)

\* i * delay_per_group
GroupDelay(idx, dpg) == RMul(FromInt(idx), dpg)

\* arr[group] = v : every listed element is set to v
FancyAssign(arr, group, v) ==
    [c \in 1..Len(arr) |->
        IF \E j \in group : Resolve(j, Len(arr)) = c - 1 THEN v ELSE arr[c]]

\* one iteration of `for i, group in enumerate(groups): delays[group] = ...`
AssignGroup ==
    /\ pc = "timing"
    /\ i < Len(groups)
    /\ \A j \in groups[i + 1] : InBounds(j, Len(delays))
    /\ delays' = FancyAssign(delays, groups[i + 1], GroupDelay(i, delay_per_group))
    /\ i' = i + 1
    /\ UNCHANGED <<pc, err, groups, delay_per_group, sample_period,
                   fractional_delays, oi, order, delay, k, ptaps, taps,
                   sample_t, group_sample_values,
                   corrected_samples, target_t>>

\* the same iteration when an index is out of bounds: numpy checks all the
\* indices of the statement before it writes any element
AssignGroupIndexError ==
    /\ pc = "timing"
    /\ i < Len(groups)
    /\ \E j \in groups[i + 1] : ~InBounds(j, Len(delays))
    /\ pc' = "raised"
    /\ err' = "IndexError"
    /\ UNCHANGED <<groups, delay_per_group, delays, i, sample_period,
                   fractional_delays, oi, order, delay, k, ptaps, taps,
                   sample_t, group_sample_values,
                   corrected_samples, target_t>>

TimingLoopDone == pc = "timing" /\ i = Len(groups)

\* inputs of the generic timing specification
Indices == -1..NChan
GroupSets == (SUBSET Indices) \ {{}}
Tables == UNION {[1..n -> GroupSets] : n \in 1..MaxGroups}
GroupDelays == {Rat(n, 2) : n \in 0..MaxGroupDelayNum}

TimingInit ==
    /\ pc = "timing"
    /\ err = "none"
    /\ groups \in Tables
    /\ delay_per_group \in GroupDelays
    /\ delays = Zeros(NChan)
    /\ i = 0
    /\ sample_period = One
    /\ fractional_delays = <<>>
    /\ oi = 0
    /\ order = 0
    /\ delay = Zero
    /\ k = 0
    /\ ptaps = <<>>
    /\ taps = <<>>
    /\ sample_t = <<>>
    /\ group_sample_values = <<>>
    /\ corrected_samples = <<>>
    /\ target_t = <<>>

TimingNext == AssignGroup \/ AssignGroupIndexError

TimingSpec == TimingInit /\ [][TimingNext]_vars

---------------------------------------------------------------------------
(* Delay-filter synthesizer: poly_taps, lines 36-49.                       *)

FactorFlipped(d, kv, mv) == RDiv(RSub(d, mv), RSub(mv, kv))

FactorPlus(d, kv, mv) == RDiv(RAdd(d, mv), RSub(kv, mv))

\* (delay - mv) / (kv - mv)
Factor(d, kv, mv) == RDiv(RSub(d, mv), RSub(kv, mv))

\* for m in range(order): if m != k: coeff *= ...   (from m on, coeff so far)
RECURSIVE CoeffLoop(_, _, _, _, _)
CoeffLoop(ord, d, kk, m, coeff) ==
    IF m >= ord THEN coeff
    ELSE CoeffLoop(ord, d, kk, m + 1,
                   IF m # kk
                   THEN RMul(coeff, Factor(d, FromInt(kk), FromInt(m)))
                   ELSE coeff)

PolyCoeffSkipFirstNode(ord, d, kk) == CoeffLoop(ord, d, kk, 1, One)

\* the value stored in taps[k]
PolyCoeff(ord, d, kk) == CoeffLoop(ord, d, kk, 0, One)

\* taps = np.zeros(order) with order >= 0
PolyTapsAlloc ==
    /\ pc = "poly_taps"
    /\ order >= 0
    /\ ptaps' = Zeros(order)
    /\ k' = 0
    /\ pc' = "taps_loop"
    /\ UNCHANGED <<err, groups, delay_per_group, delays, i, sample_period,
                   fractional_delays, oi, order, delay, taps,
                   sample_t, group_sample_values, corrected_samples, target_t>>

\* np.zeros(order) with order < 0 raises "negative dimensions are not allowed"
PolyTapsAllocFails ==
    /\ pc = "poly_taps"
    /\ order < 0
    /\ pc' = "raised"
    /\ err' = "ValueError: negative dimensions are not allowed"
    /\ UNCHANGED <<groups, delay_per_group, delays, i, sample_period,
                   fractional_delays, oi, order, delay, k, ptaps, taps,
                   sample_t, group_sample_values,
                   corrected_samples, target_t>>

\* one iteration of `for k in range(order)`
PolyTapsStep ==
    /\ pc = "taps_loop"
    /\ k < order
    /\ ptaps' = [ptaps EXCEPT ![k + 1] = PolyCoeff(order, delay, k)]
    /\ k' = k + 1
    /\ UNCHANGED <<pc, err, groups, delay_per_group, delays, i, sample_period,
                   fractional_delays, oi, order, delay, taps,
                   sample_t, group_sample_values, corrected_samples, target_t>>

\* return taps
PolyTapsReturn ==
    /\ pc = "taps_loop"
    /\ k = order
    /\ pc' = "returned"
    /\ UNCHANGED <<err, groups, delay_per_group, delays, i, sample_period,
                   fractional_delays, oi, order, delay, k, ptaps, taps,
                   sample_t, group_sample_values,
                   corrected_samples, target_t>>

---------------------------------------------------------------------------
(* Response verifier at frequency 0: lines 67-69.  freqz evaluates         *)
(* H(e^jw) = sum_k b[k] e^(-jwk); at w = 0 every exponential is 1.         *)

DCGain(b) == RSum(b)

---------------------------------------------------------------------------
(* Signal applicator: lines 118-130.                                       *)

Reverse(s) == [t \in 1..Len(s) |-> s[Len(s) + 1 - t]]

\* np.correlate(a, v, "valid") with len(a) >= len(v) >= 1
CorrelateValid(a, v) ==
    [j \in 1..(Len(a) - Len(v) + 1) |->
        RSum([t \in 1..Len(v) |-> RMul(a[j + t - 1], v[t])])]

ConvolveNoFlip(a, v) ==
    IF Len(v) > Len(a) THEN CorrelateValid(v, a) ELSE CorrelateValid(a, v)

\* np.convolve(a, v, mode="valid") on non-empty arguments: the longer one is
\* taken as the signal, the shorter one reversed and slid along it
Convolve(a, v) ==
    IF Len(v) > Len(a) THEN CorrelateValid(v, Reverse(a))
    ELSE CorrelateValid(a, Reverse(v))

\* np.arange(0.0, n * step, step)
Arange(n, step) == [j \in 1..n |-> RMul(FromInt(j - 1), step)]

\* s[start:]
SliceFrom(s, start) ==
    LET n == Len(s)
        st0 == IF start < 0 THEN start + n ELSE start
        st == IF st0 < 0 THEN 0 ELSE IF st0 > n THEN n ELSE st0
    IN  SubSeq(s, st + 1, n)

SampleValues == {Zero, One}
Samples == UNION {[1..n -> SampleValues] : n \in 0..MaxSamples}

\* sample the signal, convolve with the taps, pair with sample_t[order-1:]
ApplyTaps ==
    /\ pc = "returned"
    /\ \E x \in Samples :
        /\ Len(x) > 0
        /\ Len(ptaps) > 0
        /\ sample_t' = Arange(Len(x), sample_period)
        /\ group_sample_values' = x
        /\ corrected_samples' = Convolve(ptaps, x)
    /\ target_t' = SliceFrom(sample_t', order - 1)
    /\ pc' = "applied"
    /\ UNCHANGED <<err, groups, delay_per_group, delays, i, sample_period,
                   fractional_delays, oi, order, delay, k, ptaps, taps>>

\* np.convolve raises ValueError when either argument is empty
ApplyTapsFails ==
    /\ pc = "returned"
    /\ \E x \in Samples :
        /\ Len(x) = 0 \/ Len(ptaps) = 0
        /\ sample_t' = Arange(Len(x), sample_period)
        /\ group_sample_values' = x
    /\ pc' = "raised"
    /\ err' = "ValueError: cannot be empty"
    /\ UNCHANGED <<groups, delay_per_group, delays, i, sample_period,
                   fractional_delays, oi, order, delay, k, ptaps, taps,
                   corrected_samples, target_t>>

Orders == -1..MaxOrder
Delays == {Rat(n, d) : n \in -MaxDelayNum..MaxDelayNum, d \in 1..MaxDelayDen}

FilterInit ==
    /\ pc = "poly_taps"
    /\ err = "none"
    /\ order \in Orders
    /\ delay \in Delays
    /\ k = 0
    /\ ptaps = <<>>
    /\ groups = <<>>
    /\ delay_per_group = Zero
    /\ delays = <<>>
    /\ i = 0
    /\ sample_period = One
    /\ fractional_delays = <<>>
    /\ oi = 0
    /\ taps = <<>>
    /\ sample_t = <<>>
    /\ group_sample_values = <<>>
    /\ corrected_samples = <<>>
    /\ target_t = <<>>

FilterNext ==
    \/ PolyTapsAlloc
    \/ PolyTapsAllocFails
    \/ PolyTapsStep
    \/ PolyTapsReturn
    \/ ApplyTaps
    \/ ApplyTapsFails

FilterSpec == FilterInit /\ [][FilterNext]_vars

---------------------------------------------------------------------------
(* The script as written: its constants (lines 7-27, 53-58) and its loops. *)
(* Two things are left unevaluated because their values do not fit the     *)
(* model's integers or are irrational: a tap is kept as the list of its    *)
(* factors (numerator, divisor), and a sample of func is kept as the time  *)
(* at which func is sampled.                                               *)

adc_clock_speed == 50000000
adc_clock_period == RDiv(One, FromInt(adc_clock_speed))
adc_sample_hold_cycles == Rat(33, 2)
adc_sample_hold == RMul(adc_sample_hold_cycles, adc_clock_period)
adc_conversion_time == Zero
DelayPerGroup == RAdd(adc_sample_hold, adc_conversion_time)

SourceGroupsRotated ==
    << {8, 9, 1}, {10, 12, 2}, {11, 13, 3}, {14, 15, 4},
       {16, 17, 5}, {18, 6}, {19, 7}, {0} >>

SourceGroups ==
    << {8, 9, 0}, {10, 12, 1}, {11, 13, 2}, {14, 15, 3},
       {16, 17, 4}, {18, 5}, {19, 6}, {7} >>

NumChannels == 20
samplerate == 40000
SamplePeriod == RDiv(One, FromInt(samplerate))
OrderList == <<3, 4, 6>>
NumSampleTimes == 9

\* the factors multiplied into coeff for tap kk, in the order of the m loop
RECURSIVE FactorLoop(_, _, _, _)
FactorLoop(ord, d, kk, m) ==
    IF m >= ord THEN <<>>
    ELSE (IF m # kk
          THEN <<<<RSub(d, FromInt(m)), RSub(FromInt(kk), FromInt(m))>>>>
          ELSE <<>>) \o FactorLoop(ord, d, kk, m + 1)

\* poly_taps(order, delay) with every tap left as its factor list
PolyTapsFactors(ord, d) == [t \in 1..ord |-> FactorLoop(ord, d, t - 1, 0)]

\* fractional_delays = delays / sample_period
FractionalDelays ==
    /\ TimingLoopDone
    /\ fractional_delays' = [c \in 1..Len(delays) |-> RDiv(delays[c], sample_period)]
    /\ oi' = 0
    /\ pc' = "orders"
    /\ UNCHANGED <<err, groups, delay_per_group, delays, i, sample_period,
                   order, delay, k, ptaps, taps, sample_t,
                   group_sample_values, corrected_samples, target_t>>

\* for order in [3, 4, 6]: start of one iteration
BeginOrder ==
    /\ pc = "orders"
    /\ oi < Len(OrderList)
    /\ order' = OrderList[oi + 1]
    /\ taps' = <<>>
    /\ pc' = "synth"
    /\ UNCHANGED <<err, groups, delay_per_group, delays, i, sample_period,
                   fractional_delays, oi, delay, k, ptaps, sample_t,
                   group_sample_values, corrected_samples, target_t>>

\* taps = [poly_taps(order, delay) for delay in fractional_delays]: one element
SynthChannel ==
    /\ pc = "synth"
    /\ Len(taps) < Len(fractional_delays)
    /\ taps' = Append(taps, PolyTapsFactors(order, fractional_delays[Len(taps) + 1]))
    /\ UNCHANGED <<pc, err, groups, delay_per_group, delays, i, sample_period,
                   fractional_delays, oi, order, delay, k, ptaps, sample_t,
                   group_sample_values, corrected_samples, target_t>>

\* sample_t = np.arange(...); for i in range(len(groups)): start
BeginApply ==
    /\ pc = "synth"
    /\ Len(taps) = Len(fractional_delays)
    /\ sample_t' = Arange(NumSampleTimes, sample_period)
    /\ i' = 0
    /\ pc' = "apply"
    /\ UNCHANGED <<err, groups, delay_per_group, delays, sample_period,
                   fractional_delays, oi, order, delay, k, ptaps, taps,
                   group_sample_values, corrected_samples, target_t>>

\* delay = -delay_per_group * i; group_sample_time = sample_t - delay;
\* group_sample_values = func(group_sample_time)
SampleGroup ==
    /\ pc = "apply"
    /\ i < Len(groups)
    /\ delay' = RMul(RSub(Zero, delay_per_group), FromInt(i))
    /\ group_sample_values' = [j \in 1..Len(sample_t) |-> RSub(sample_t[j], delay')]
    /\ pc' = "convolve"
    /\ UNCHANGED <<err, groups, delay_per_group, delays, i, sample_period,
                   fractional_delays, oi, order, k, ptaps, taps, sample_t,
                   corrected_samples, target_t>>

\* corrected_samples = np.convolve(taps[i], group_sample_values, mode="valid"),
\* plotted against sample_t[order-1:]
ConvolveGroup ==
    /\ pc = "convolve"
    /\ i < Len(taps)
    /\ corrected_samples' = [a |-> taps[i + 1], v |-> group_sample_values]
    /\ target_t' = SliceFrom(sample_t, order - 1)
    /\ i' = i + 1
    /\ pc' = "apply"
    /\ UNCHANGED <<err, groups, delay_per_group, delays, sample_period,
                   fractional_delays, oi, order, delay, k, ptaps, taps,
                   sample_t, group_sample_values>>

\* plt.savefig(...): end of one iteration of the order loop
EndOrder ==
    /\ pc = "apply"
    /\ i = Len(groups)
    /\ oi' = oi + 1
    /\ pc' = "orders"
    /\ UNCHANGED <<err, groups, delay_per_group, delays, i, sample_period,
                   fractional_delays, order, delay, k, ptaps, taps, sample_t,
                   group_sample_values, corrected_samples, target_t>>

\* plt.show()
Show ==
    /\ pc = "orders"
    /\ oi = Len(OrderList)
    /\ pc' = "done"
    /\ UNCHANGED <<err, groups, delay_per_group, delays, i, sample_period,
                   fractional_delays, oi, order, delay, k, ptaps, taps,
                   sample_t, group_sample_values, corrected_samples, target_t>>

Init ==
    /\ pc = "timing"
    /\ err = "none"
    /\ groups = SourceGroups
    /\ delay_per_group = DelayPerGroup
    /\ delays = Zeros(NumChannels)
    /\ i = 0
    /\ sample_period = SamplePeriod
    /\ fractional_delays = <<>>
    /\ oi = 0
    /\ order = 0
    /\ delay = Zero
    /\ k = 0
    /\ ptaps = <<>>
    /\ taps = <<>>
    /\ sample_t = <<>>
    /\ group_sample_values = <<>>
    /\ corrected_samples = <<>>
    /\ target_t = <<>>

Next ==
    \/ AssignGroup
    \/ FractionalDelays
    \/ BeginOrder
    \/ SynthChannel
    \/ BeginApply
    \/ SampleGroup
    \/ ConvolveGroup
    \/ EndOrder
    \/ Show

Spec == Init /\ [][Next]_vars

---------------------------------------------------------------------------
(* Properties of the timing model (TimingSpec).                            *)

Channels(n) == 0..(n - 1)

GroupsHolding(g, c) == {j \in 1..Len(g) : c \in g[j]}

\* every index is a channel and every channel is in exactly one group
IsPartition(g, n) ==
    /\ \A j \in 1..Len(g) : g[j] \subseteq Channels(n)
    /\ \A c \in Channels(n) : Cardinality(GroupsHolding(g, c)) = 1

\* some channel is in no group or in more than one
BadCover(g, n) == \E c \in Channels(n) : Cardinality(GroupsHolding(g, c)) # 1

\* 0-based index of the group that holds channel c of a partition
GroupOf(g, c) == (CHOOSE j \in 1..Len(g) : c \in g[j]) - 1

\* channels written by the iterations completed so far
WrittenChannels ==
    UNION {{Resolve(j, Len(delays)) : j \in groups[g]} : g \in 1..i}

\* C1: when the group table is a partition of the channels [0, N) and the
\* group delay is non-negative, after the group loop every channel c has
\* delays[c] = (index of its group) * group_delay; a zero group delay gives
\* all-zero delays and every channel of group 0 has delay 0.
C1_DelaysOfPartition ==
    (TimingLoopDone /\ IsPartition(groups, Len(delays)) /\ delay_per_group[1] >= 0)
    => /\ \A c \in Channels(Len(delays)) :
            delays[c + 1] = RMul(FromInt(GroupOf(groups, c)), delay_per_group)
       /\ delay_per_group = Zero => \A c \in Channels(Len(delays)) : delays[c + 1] = Zero
       /\ \A c \in groups[1] : delays[c + 1] = Zero

C1_Witness ==
    /\ TimingLoopDone
    /\ IsPartition(groups, Len(delays))
    /\ Len(groups) >= 2
    /\ delay_per_group[1] > 0
    /\ \E c \in Channels(Len(delays)) : delays[c + 1] # Zero

\* C2: a group table that is not a partition of the channels (a channel in no
\* group or in several) makes the computation of the delays fail; the group
\* loop never completes with a delays array for such a table.
C2_NonPartitionFails ==
    BadCover(groups, Len(delays)) => ~TimingLoopDone

\* C9: when a step fails, nothing of its output has been written: no element
\* of delays has been assigned when the group loop raises, no tap array
\* exists when the synthesizer raises, no corrected sample exists when the
\* applicator raises.
C9_NoPartialOutput ==
    pc = "raised"
    => /\ (err = "IndexError" => WrittenChannels = {})
       /\ (order < 0 => ptaps = <<>>)
       /\ corrected_samples = <<>>

---------------------------------------------------------------------------
(* Properties of the synthesizer and the applicator (FilterSpec).          *)

UnitAt(n, idx) == [t \in 1..n |-> IF t = idx + 1 THEN One ELSE Zero]

\* C3 as stated: for order >= 1 the taps for delay 0 are 1 at index
\* order-1 and 0 at every other index.
C3_UnitAtLastIndex ==
    (pc = "returned" /\ order >= 1 /\ delay = Zero)
    => ptaps = UnitAt(order, order - 1)

\* C3 amended: for order >= 1 the taps for delay 0 are exactly 1 at index 0
\* and exactly 0 at every other index.
C3_UnitAtIndexZero ==
    (pc = "returned" /\ order >= 1 /\ delay = Zero)
    => ptaps = UnitAt(order, 0)

C3_Witness == pc = "returned" /\ order >= 2 /\ delay = Zero /\ ptaps[1] = One

\* C4: for every order >= 1 and every delay (negative and beyond the tap span
\* included) the taps sum to exactly 1, so the gain at frequency 0 is unity.
C4_TapsSumToOne ==
    (pc = "returned" /\ order >= 1) => DCGain(ptaps) = One

C4_Witness ==
    /\ pc = "returned"
    /\ order >= 3
    /\ delay[2] # 1
    /\ delay[1] < 0 \/ delay[1] > order * delay[2]
    /\ \A t \in 1..order : ptaps[t] # Zero

\* C5: for order >= 1 and an integer delay d with 0 <= d < order the taps are
\* exactly 1 at index d and 0 elsewhere, and no tap has a zero divisor.
C5_IntegerDelaySelectsIndex ==
    (pc = "returned" /\ order >= 1 /\ delay[2] = 1 /\ 0 <= delay[1] /\ delay[1] < order)
    => /\ ptaps = UnitAt(order, delay[1])
       /\ \A t \in 1..order : ptaps[t][2] > 0

C5_Witness ==
    pc = "returned" /\ order = 3 /\ delay = One /\ ptaps = <<Zero, One, Zero>>

\* C6: a call with order < 1 fails and returns no tap array; a call with
\* order >= 1 does not fail and returns exactly order taps.
C6_InvalidOrderFails ==
    /\ order < 1 => pc \notin {"returned", "applied"}
    /\ order >= 1 => err # "ValueError: negative dimensions are not allowed"
    /\ (order >= 1 /\ pc = "returned") => Len(ptaps) = order

\* C7: for taps of length order and n >= order input samples the output has
\* n - (order - 1) samples, its j-th sample is
\* sum_{k=0..order-1} taps[k] * x[j + order - 1 - k], and it is paired with
\* the target time sample_t[j + order - 1].
C7_ValidConvolution ==
    (pc = "applied" /\ order >= 1 /\ Len(group_sample_values) >= order)
    => /\ Len(corrected_samples) = Len(group_sample_values) - (order - 1)
       /\ Len(target_t) = Len(corrected_samples)
       /\ \A j \in 0..(Len(group_sample_values) - order) :
            /\ corrected_samples[j + 1] =
                 RSum([t \in 1..order |->
                        RMul(ptaps[t], group_sample_values[j + order - t + 1])])
            /\ target_t[j + 1] = sample_t[j + order]

C7_Witness ==
    /\ pc = "applied"
    /\ order = 3
    /\ Len(group_sample_values) = 4
    /\ delay[2] # 1
    /\ group_sample_values = <<One, Zero, Zero, One>>
    /\ corrected_samples[1] # corrected_samples[2]

\* C8: when the input has fewer samples than the tap count, applying the taps
\* fails and yields no corrected samples.
C8_TooFewSamplesFail ==
    (order >= 1 /\ Len(group_sample_values) < order) => pc # "applied"

---------------------------------------------------------------------------
(* Property of the script (Spec).                                          *)

\* the delay of group g in samples: g * delay_per_group / sample_period
GroupFractionalDelay(g) == RDiv(RMul(FromInt(g), delay_per_group), sample_period)

\* C10: in the time-domain loop the per-channel tap list is read with the
\* group index i; for every group index i and every order of the order list,
\* channel i belongs to group i, fractional_delays[i] is
\* i * delay_per_group / sample_period, and taps[i] (the taps handed to
\* np.convolve for group i) is the tap set synthesized for that delay.
C10_TapsOfGroupIndex ==
    /\ pc \in {"apply", "convolve"} =>
         \A g \in 0..(Len(groups) - 1) :
            /\ g \in groups[g + 1]
            /\ fractional_delays[g + 1] = GroupFractionalDelay(g)
            /\ taps[g + 1] = PolyTapsFactors(order, GroupFractionalDelay(g))
    /\ (pc = "apply" /\ i > 0) =>
         corrected_samples.a = PolyTapsFactors(order, GroupFractionalDelay(i - 1))

C10_Witness ==
    /\ pc = "apply"
    /\ i = Len(groups)
    /\ order = 6
    /\ corrected_samples.a = taps[8]
    /\ fractional_delays[8] = Rat(231, 2500)

====
